---- MODULE Spec2Model ----
(***************************************************************************)
(* Commit Critic: the write-mode approval workflow of cli.py and the Git   *)
(* Inspector tools of tools.py, the scorer of ANALYZE_COMMITS_PROMPT and    *)
(* the records of models.py.                                               *)
(*                                                                         *)
(* Text is modelled by TLA+ strings; a character is a string of length 1.  *)
(* The language-model agent behind agent.invoke is modelled as following   *)
(* the workflow MAIN_AGENT_PROMPT and the sub-agent prompts prescribe.     *)
(***************************************************************************)
EXTENDS Integers, Sequences, FiniteSets, TLC

VARIABLES
    wfState,          \* position of run_write in the approval workflow
    route,            \* branch run_write took at the options menu
    inputs,           \* the lines read with input(), stripped, in order
    stagedFiles,      \* the repository's staged paths, in git's order
    suggestion,       \* the message the agent last suggested ("" = none)
    reportedNoStaged, \* the agent told the user to stage files first
    composerCalls,    \* task("suggest_commit_message") delegations
    commitArgs,       \* the messages create_commit_tool was called with
    gitCommitRuns,    \* subprocess.run(["git", ..., "commit", ...]) calls
    committed,        \* the messages of the commits git created
    call,             \* the last direct call of a Git Inspector tool, of the
                      \* scorer, of a record constructor of models.py, of a
                      \* thread function or of main
    store             \* the checkpoint store: SQLITE_AVAILABLE, the file
                      \* CHECKPOINT_DB and its checkpoints table, _memory_saver

flowVars == <<wfState, route, inputs, stagedFiles, suggestion, reportedNoStaged,
              composerCalls, commitArgs, gitCommitRuns, committed>>

writeVars == <<flowVars, store>>

vars == <<wfState, route, inputs, stagedFiles, suggestion, reportedNoStaged,
          composerCalls, commitArgs, gitCommitRuns, committed, call, store>>

-----------------------------------------------------------------------------
(* Text: str.strip, str.lower, str.startswith, str.split, slices           *)

Min(a, b) == IF a < b THEN a ELSE b

Max(a, b) == IF a > b THEN a ELSE b

CharAt(s, i) == SubSeq(s, i, i)

UpperLetters == "ABCDEFGHIJKLMNOPQRSTUVWXYZ"

LowerLetters == "abcdefghijklmnopqrstuvwxyz"

LowerChar(c) ==
    IF \E i \in 1..Len(UpperLetters) : CharAt(UpperLetters, i) = c
    THEN CharAt(LowerLetters, CHOOSE i \in 1..Len(UpperLetters) : CharAt(UpperLetters, i) = c)
    ELSE c

\* str.lower, character by character (the text is halved to keep the
\* evaluation shallow).
RECURSIVE Lower(_)
Lower(s) ==
    IF Len(s) = 0 THEN ""
    ELSE IF Len(s) = 1 THEN LowerChar(s)
    ELSE LET mid == Len(s) \div 2
         IN  Lower(SubSeq(s, 1, mid)) \o Lower(SubSeq(s, mid + 1, Len(s)))

IsSpace(c) == c \in {" ", "\t", "\n", "\r"}

\* str.lstrip: the text from its first character that is no whitespace.
LStrip(s) ==
    IF \A i \in 1..Len(s) : IsSpace(CharAt(s, i)) THEN ""
    ELSE SubSeq(s, CHOOSE i \in 1..Len(s) :
                       /\ ~IsSpace(CharAt(s, i))
                       /\ \A j \in 1..(i - 1) : IsSpace(CharAt(s, j)),
                Len(s))

\* str.rstrip: the text up to its last character that is no whitespace.
RStrip(s) ==
    IF \A i \in 1..Len(s) : IsSpace(CharAt(s, i)) THEN ""
    ELSE SubSeq(s, 1, CHOOSE i \in 1..Len(s) :
                          /\ ~IsSpace(CharAt(s, i))
                          /\ \A j \in (i + 1)..Len(s) : IsSpace(CharAt(s, j)))

Strip(s) == RStrip(LStrip(s))

StartsWith(s, p) == Len(s) >= Len(p) /\ SubSeq(s, 1, Len(p)) = p

Prefix(s, n) == SubSeq(s, 1, Min(n, Len(s)))

\* str.split(sep) for a one-character separator: the pieces between the
\* occurrences of sep, one more than there are occurrences.
SepAt(s, sep) == {i \in 1..Len(s) : CharAt(s, i) = sep}

Split(s, sep) ==
    LET at == SepAt(s, sep)
        nth(k) == IF k = 0 THEN 0
                  ELSE IF k > Cardinality(at) THEN Len(s) + 1
                  ELSE CHOOSE i \in at : Cardinality({j \in at : j < i}) = k - 1
    IN  [k \in 1..(Cardinality(at) + 1) |-> SubSeq(s, nth(k - 1) + 1, nth(k) - 1)]

\* A faulty variant of NonEmpty: the empty pieces are kept.
NonEmpty_KeepsAll(seq) == seq

\* [f for f in pieces if f]
RECURSIVE NonEmpty(_)
NonEmpty(seq) ==
    IF seq = <<>> THEN <<>>
    ELSE IF Head(seq) = "" THEN NonEmpty(Tail(seq))
         ELSE <<Head(seq)>> \o NonEmpty(Tail(seq))

RECURSIVE Repeat(_, _)
Repeat(s, n) ==
    IF n = 0 THEN ""
    ELSE LET h == Repeat(s, n \div 2)
         IN  IF n % 2 = 0 THEN h \o h ELSE h \o h \o s

-----------------------------------------------------------------------------
(* subprocess.run and the try/except blocks of tools.py                    *)

\* How one subprocess can end: it exits 0, exits non-zero, outlives its
\* timeout (only when a timeout is passed), or cannot be launched at all.
Outcomes == {"ok", "nonzero", "launch"}

OutcomesWithTimeout == Outcomes \cup {"timeout"}

\* The exception subprocess.run raises for an outcome ("none": it returns).
RunRaises(outcome, check) ==
    CASE outcome = "launch" -> "FileNotFoundError"
      [] outcome = "timeout" -> "TimeoutExpired"
      [] outcome = "nonzero" /\ check -> "CalledProcessError"
      [] OTHER -> "none"

\* A faulty variant of Handler: a clause catches only the class it names.
Handler_ExactOnly(clauses, exc) ==
    IF \E i \in 1..Len(clauses) : clauses[i] = exc THEN exc ELSE "uncaught"

\* The first except clause, in source order, that catches exc; "uncaught"
\* when none does.  Every exception modelled here derives from Exception.
RECURSIVE Handler(_, _)
Handler(clauses, exc) ==
    IF clauses = <<>> THEN "uncaught"
    ELSE IF Head(clauses) = exc \/ Head(clauses) = "Exception" THEN Head(clauses)
         ELSE Handler(Tail(clauses), exc)

\* A faulty variant of FirstRaise: the commands after the failing one are
\* run all the same.
FirstRaise_RunsOn(outcomes, checks) ==
    LET failing == {i \in 1..Len(outcomes) : RunRaises(outcomes[i], checks[i]) # "none"}
        first == CHOOSE i \in failing : \A j \in failing : i <= j
    IN  IF failing = {} THEN [at |-> 0, exc |-> "none"]
        ELSE [at |-> Len(outcomes), exc |-> RunRaises(outcomes[first], checks[first])]

\* The exception the first failing command of a call raises; the commands
\* after it are never run.
RECURSIVE FirstRaise(_, _)
FirstRaise(outcomes, checks) ==
    IF outcomes = <<>> THEN [at |-> 0, exc |-> "none"]
    ELSE LET e == RunRaises(Head(outcomes), Head(checks))
         IN  IF e # "none" THEN [at |-> 1, exc |-> e]
             ELSE LET r == FirstRaise(Tail(outcomes), Tail(checks))
                  IN  [at |-> IF r.at = 0 THEN 0 ELSE r.at + 1, exc |-> r.exc]

\* What a tool call leaves behind: the JSON it returns, the git commands it
\* ran, and the exception that escaped it ("none" when it returned).
Returned(kind, value, runs) ==
    [kind |-> kind, value |-> value, runs |-> runs, raised |-> "none"]

Escaped(exc, runs) ==
    [kind |-> "none", value |-> <<>>, runs |-> runs, raised |-> exc]

-----------------------------------------------------------------------------
(* create_commit_tool                                                      *)

EchoLen == 50

CreateCommitClauses == <<"CalledProcessError", "Exception">>

\* A faulty variant of CleanMessage: the message is not stripped before the test.
CleanMessage_NoStrip(message) ==
    IF message.isNone \/ message.text = "" THEN "" ELSE message.text

\* message = message.strip() if message else ""
\* message is [isNone, text]: the argument may be None.
CleanMessage(message) ==
    IF message.isNone \/ message.text = "" THEN "" ELSE Strip(message.text)

CreateCommitTool(message, outcome) ==
    LET msg == CleanMessage(message)
        exc == RunRaises(outcome, TRUE)
        h == Handler(CreateCommitClauses, exc)
        runs == <<[cmd |-> "commit", message |-> msg]>>
    IN  IF msg = ""
        THEN Returned("object",
                      [success |-> FALSE, error |-> "Empty commit message provided"],
                      <<>>)
        ELSE IF exc = "none"
        THEN Returned("object",
                      [success |-> TRUE, output |-> "git commit output",
                       message |-> "Successfully committed: " \o Prefix(msg, EchoLen) \o "..."],
                      runs)
        ELSE IF h = "CalledProcessError"
        THEN Returned("object", [success |-> FALSE, error |-> "Commit failed: stderr"], runs)
        ELSE IF h = "Exception"
        THEN Returned("object", [success |-> FALSE, error |-> "Unexpected error: " \o exc], runs)
        ELSE Escaped(exc, runs)

-----------------------------------------------------------------------------
(* get_staged_diff_tool                                                    *)

DiffLimit == 5000

StagedDiffClauses == <<"CalledProcessError", "Exception">>

RECURSIVE JoinLines(_)
JoinLines(files) ==
    IF files = <<>> THEN "" ELSE Head(files) \o "\n" \o JoinLines(Tail(files))

\* repo is [files, stat, diff]: what the three git diff --staged commands print.
GetStagedDiffTool(repo, outcomes) ==
    LET first == FirstRaise(outcomes, <<TRUE, TRUE, TRUE>>)
        cmds == <<"diff --staged --stat", "diff --staged", "diff --staged --name-only">>
        runs == [i \in 1..(IF first.at = 0 THEN 3 ELSE first.at) |-> [cmd |-> cmds[i]]]
        h == Handler(StagedDiffClauses, first.exc)
        files == NonEmpty(Split(Strip(JoinLines(repo.files)), "\n"))
    IN  IF first.exc = "none"
        THEN IF files = <<>>
             THEN Returned("object",
                           [has_staged |-> FALSE,
                            message |-> "No staged changes found. Stage files with 'git add' first."],
                           runs)
             ELSE Returned("object",
                           [has_staged |-> TRUE, stat |-> repo.stat,
                            diff |-> Prefix(repo.diff, DiffLimit),
                            files |-> files, file_count |-> Len(files)],
                           runs)
        ELSE IF h = "CalledProcessError"
        THEN Returned("object",
                      [has_staged |-> FALSE, error |-> "Failed to get staged changes: stderr"],
                      runs)
        ELSE IF h = "Exception"
        THEN Returned("object",
                      [has_staged |-> FALSE, error |-> "Unexpected error: " \o first.exc],
                      runs)
        ELSE Escaped(first.exc, runs)

-----------------------------------------------------------------------------
(* get_commits_tool                                                        *)

MaxLimit == 500

ShortHashLen == 8

\* A faulty variant of GetCommitsClauses: the catch-all clause is missing.
GetCommitsClauses_NoCatchAll == <<"CalledProcessError">>

GetCommitsClauses == <<"CalledProcessError", "Exception">>

\* The field separator %x1f of the log format (a printable stand-in).
US == "|"

\* The commits a repository's history is made of, most recent first; the
\* history of a repository with n commits repeats them in this order.
CommitPool ==
    <<[hash |-> "3f2a9c41d07be5586a1c0d9e4b7f2a6c8d1e0f35", subject |-> "fix", body |-> ""],
      [hash |-> "a81b6e02c4d9f7733e5a1b8c9d0e2f4a6b7c8d9e",
       subject |-> "feat(auth): add token refresh ", body |-> "Rotate tokens.\nAdd tests.\n"],
      [hash |-> "0c7d5e9fa2b4c6d8e0f1a3b5c7d9e1f3a5b7c9d1",
       subject |-> "wip | later", body |-> ""]>>

RepoLog(size) == [i \in 1..size |-> CommitPool[((i - 1) % Len(CommitPool)) + 1]]

\* stdout of git log -n<n> --format=%H%x1f%s%x1f%b%x00, cut at the record
\* separator %x00 (result.stdout.split('\x00')): one piece per commit, a
\* newline between records, and the piece after the last separator.
GitLogPieces(log, n) ==
    LET shown == Min(n, Len(log))
    IN  [i \in 1..(shown + 1) |->
            IF i > shown THEN (IF shown = 0 THEN "" ELSE "\n")
            ELSE (IF i = 1 THEN "" ELSE "\n")
                 \o log[i].hash \o US \o log[i].subject \o US \o log[i].body]

\* The body of the for loop over the pieces: the commits one piece adds.
ParseEntry(piece) ==
    LET entry == Strip(piece)
        parts == Split(entry, US)
    IN  IF entry = "" THEN <<>>
        ELSE IF Len(parts) >= 2
        THEN <<[hash |-> Prefix(parts[1], ShortHashLen),
                message |-> Strip(parts[2]),
                body |-> IF Len(parts) > 2 THEN Strip(parts[3]) ELSE ""]>>
        ELSE <<>>

\* The for loop: the commits of pieces[lo..hi], in order (split in halves to
\* keep the evaluation shallow).
RECURSIVE ParseEntries(_, _, _)
ParseEntries(pieces, lo, hi) ==
    IF lo > hi THEN <<>>
    ELSE IF lo = hi THEN ParseEntry(pieces[lo])
    ELSE LET mid == (lo + hi) \div 2
         IN  ParseEntries(pieces, lo, mid) \o ParseEntries(pieces, mid + 1, hi)

\* A faulty variant of ClampLimit: the lower clamp is missing.
ClampLimit_NoFloor(value) == Min(value, MaxLimit)

\* limit = max(1, min(int(limit), 500))
ClampLimit(value) == Max(1, Min(value, MaxLimit))

\* limit is [isInt, value]: int(limit) raises ValueError when it is no number.
GetCommitsTool(limit, log, outcome) ==
    LET n == ClampLimit(limit.value)
        runs == <<[cmd |-> "log", n |-> n]>>
        exc == IF ~limit.isInt THEN "ValueError" ELSE RunRaises(outcome, TRUE)
        ran == IF ~limit.isInt THEN <<>> ELSE runs
        h == Handler(GetCommitsClauses, exc)
    IN  IF exc = "none"
        THEN LET pieces == GitLogPieces(log, n)
             IN  Returned("list", ParseEntries(pieces, 1, Len(pieces)), ran)
        ELSE IF h = "CalledProcessError"
        THEN Returned("object",
                      [error |-> "Failed to fetch commits: stderr", commits |-> <<>>], ran)
        ELSE IF h = "Exception"
        THEN Returned("object",
                      [error |-> "Unexpected error: " \o exc, commits |-> <<>>], ran)
        ELSE Escaped(exc, ran)

-----------------------------------------------------------------------------
(* clone_repo_tool                                                         *)

CloneDepth == 50

CloneTimeout == 60

\* A faulty variant of CloneClauses: no clause of its own for the timeout.
CloneClauses_NoTimeout == <<"CalledProcessError", "Exception">>

CloneClauses == <<"TimeoutExpired", "CalledProcessError", "Exception">>

None == [isNone |-> TRUE, text |-> ""]

Some(text) == [isNone |-> FALSE, text |-> text]

\* A faulty variant of AllowedSchemes: ftp:// is let through.
AllowedSchemes_WithFtp == {"https://", "http://", "git://", "git@", "ftp://"}

AllowedSchemes == {"https://", "http://", "git://", "git@"}

TempDir == "/tmp/commit_critic_x"

CloneFailed(error, runs, dirs) ==
    Returned("object", [success |-> FALSE, repo_path |-> None, error |-> error], runs)
        @@ [tempDirs |-> dirs]

\* mkdtempOk: whether tempfile.mkdtemp can create the directory.
CloneRepoTool(rawUrl, mkdtempOk, outcome) ==
    LET url == Strip(rawUrl)
        runs == <<[cmd |-> "clone", depth |-> CloneDepth, url |-> url,
                   dir |-> TempDir, timeout |-> CloneTimeout]>>
        exc == IF ~mkdtempOk THEN "OSError" ELSE RunRaises(outcome, TRUE)
        ran == IF ~mkdtempOk THEN <<>> ELSE runs
        dirs == IF mkdtempOk THEN 1 ELSE 0
        h == Handler(CloneClauses, exc)
    IN  IF url = ""
        THEN CloneFailed("Empty URL provided", <<>>, 0)
        ELSE IF ~\E scheme \in AllowedSchemes : StartsWith(url, scheme)
        THEN CloneFailed("Invalid URL protocol. Use https://, http://, git://, or git@ URLs",
                         <<>>, 0)
        ELSE IF exc = "none"
        THEN Returned("object",
                      [success |-> TRUE, repo_path |-> Some(TempDir),
                       message |-> "Successfully cloned " \o url \o " to " \o TempDir],
                      ran) @@ [tempDirs |-> dirs]
        ELSE IF h = "TimeoutExpired"
        THEN CloneFailed("Clone timed out after 60 seconds. Repository may be too large or network is slow.",
                         ran, dirs)
        ELSE IF h = "CalledProcessError"
        THEN CloneFailed("Clone failed: stderr", ran, dirs)
        ELSE IF h = "Exception"
        THEN CloneFailed("Unexpected error: " \o exc, ran, dirs)
        ELSE Escaped(exc, ran) @@ [tempDirs |-> dirs]

-----------------------------------------------------------------------------
(* get_repo_info_tool                                                      *)

RepoInfoClauses == <<"CalledProcessError", "Exception">>

\* A faulty variant of RemoteClauses: the inner try catches nothing.
RemoteClauses_Nothing == <<>>

RemoteClauses == <<"CalledProcessError">>

NoRemote == "No remote configured"

\* repo is [path, branch, remote, files]: what rev-parse and remote get-url
\* print, and the staged paths.
\* outcomes are those of rev-parse, remote get-url and diff --staged --quiet.
GetRepoInfoTool(repo, outcomes) ==
    LET cmds == <<"rev-parse --abbrev-ref HEAD", "remote get-url origin",
                  "diff --staged --quiet">>
        branchExc == RunRaises(outcomes[1], TRUE)
        remoteExc == RunRaises(outcomes[2], TRUE)
        remoteEscapes == remoteExc # "none" /\ Handler(RemoteClauses, remoteExc) = "uncaught"
        stagedExc == RunRaises(outcomes[3], FALSE)
        exc == IF branchExc # "none" THEN branchExc
               ELSE IF remoteEscapes THEN remoteExc
               ELSE stagedExc
        count == IF branchExc # "none" THEN 1 ELSE IF remoteEscapes THEN 2 ELSE 3
        runs == [i \in 1..count |-> [cmd |-> cmds[i]]]
        remote == IF remoteExc = "none" THEN Strip(repo.remote) ELSE NoRemote
        has_staged == outcomes[3] # "ok"
        h == Handler(RepoInfoClauses, exc)
    IN  IF exc = "none"
        THEN Returned("object",
                      [repo_path |-> repo.path, branch |-> Strip(repo.branch),
                       remote |-> remote, has_staged_changes |-> has_staged],
                      runs)
        ELSE IF h = "CalledProcessError"
        THEN Returned("object", [error |-> "Not a git repository or git error: stderr"], runs)
        ELSE IF h = "Exception"
        THEN Returned("object", [error |-> "Unexpected error: " \o exc], runs)
        ELSE Escaped(exc, runs)

-----------------------------------------------------------------------------
(* commit_critic_agent.py: the checkpointer and the thread functions        *)

\* Thread ids a caller passes, and values generate_thread_id can return
\* ("thread_" and 12 hex digits of a random uuid4).
ThreadIds == {"thread_a", "thread_b"}

MintPool == {"thread_3f2a9c41d07b", "thread_a81b6e02c4d9"}

\* _memory_saver: None, or an InMemorySaver holding checkpoints.
NoSaver == [isNone |-> TRUE, checkpoints |-> <<>>]

\* The store before any agent ran: no checkpoints table yet; the file
\* CHECKPOINT_DB may exist already. checkpoints lists the thread_id column
\* of the rows of the table, one row per checkpoint.
NewStore(sqlite, dbFile) ==
    [sqlite |-> sqlite, dbFile |-> dbFile, table |-> FALSE, checkpoints |-> <<>>,
     memorySaver |-> NoSaver, minted |-> {}]

\* get_checkpointer and agent.invoke with config thread_id: the turn is saved
\* as rows checkpoints of the thread, in the database or in _memory_saver.
SaveTurn(st, thread_id, rows) ==
    LET added == [i \in 1..rows |-> thread_id]
    IN  IF st.sqlite
        THEN [st EXCEPT !.dbFile = TRUE, !.table = TRUE,
                        !.checkpoints = @ \o added]
        ELSE [st EXCEPT !.memorySaver =
                            [isNone |-> FALSE, checkpoints |-> @.checkpoints \o added]]

\* generate_thread_id and get_or_create_thread_id; uuid is the value
\* uuid.uuid4() gives when it is called.
GetOrCreateThreadId(thread_id, uuid) ==
    IF ~thread_id.isNone /\ thread_id.text # "" THEN thread_id.text ELSE uuid

\* SELECT DISTINCT thread_id FROM checkpoints
RECURSIVE Distinct(_)
Distinct(rows) ==
    IF rows = <<>> THEN <<>>
    ELSE LET rest == Distinct(SubSeq(rows, 1, Len(rows) - 1))
             last == rows[Len(rows)]
         IN  IF \E i \in 1..Len(rest) : rest[i] = last THEN rest ELSE Append(rest, last)

NotListable == "(in-memory threads not listable - install langgraph-checkpoint-sqlite)"

\* list_threads
ListThreads(st) ==
    IF ~st.sqlite THEN <<NotListable>>
    ELSE IF ~st.dbFile THEN <<>>
    ELSE IF ~st.table THEN <<>>
    ELSE Distinct(st.checkpoints)

\* A faulty variant of DeleteRows: the WHERE clause is missing.
DeleteRows_All(rows, thread_id) == <<>>

\* DELETE FROM checkpoints WHERE thread_id = ?
DeleteRows(rows, thread_id) ==
    LET Keep(row) == row # thread_id
    IN  SelectSeq(rows, Keep)

\* clear_thread: the value returned and the store left.
ClearThread(st, thread_id) ==
    IF ~st.sqlite THEN [value |-> FALSE, store |-> st]
    ELSE IF ~st.dbFile THEN [value |-> FALSE, store |-> st]
    ELSE IF ~st.table THEN [value |-> FALSE, store |-> st]
    ELSE LET kept == DeleteRows(st.checkpoints, thread_id)
             rowcount == Len(st.checkpoints) - Len(kept)
         IN  [value |-> rowcount > 0, store |-> [st EXCEPT !.checkpoints = kept]]

\* clear_all_threads: the value returned and the store left.
ClearAllThreads(st) ==
    IF ~st.sqlite THEN [value |-> 1, store |-> [st EXCEPT !.memorySaver = NoSaver]]
    ELSE IF ~st.dbFile THEN [value |-> 0, store |-> st]
    ELSE IF ~st.table THEN [value |-> 0, store |-> st]
    ELSE [value |-> Len(st.checkpoints), store |-> [st EXCEPT !.checkpoints = <<>>]]

\* The thread of a run of run_write without --thread.
WriteThread == "thread_3f2a9c41d07b"

-----------------------------------------------------------------------------
(* The agent behind agent.invoke, as its prompts instruct it               *)

\* The instructions run_write sends: the first prompt ("suggest"), the
\* approval of the suggestion ("approve"), the revision request ("revise"),
\* the approval of the revision ("approve_revised"), a custom message ("custom").
InstructionKinds == {"suggest", "approve", "revise", "approve_revised", "custom"}

\* A faulty variant of AgentExecutesOn: the agent also commits when asked to revise.
AgentExecutesOn_Revise(kind) == kind \in {"approve", "approve_revised", "custom", "revise"}

\* A faulty variant of AgentExecutesOn: the approval of a revision commits nothing.
AgentExecutesOn_NotRevised(kind) == kind \in {"approve", "custom"}

\* MAIN_AGENT_PROMPT, write mode step 5 and rule 1: task("execute_commit")
\* only once the user has approved.
AgentExecutesOn(kind) == kind \in {"approve", "approve_revised", "custom"}

\* MAIN_AGENT_PROMPT, write mode steps 2 and 3: task("suggest_commit_message")
\* for staged changes, and again when asked to revise.
AgentComposesOn(kind, hasStaged) ==
    \/ kind = "suggest" /\ hasStaged
    \/ kind = "revise"

\* The messages the Composer may come up with.
Suggestions == {"feat(api): add cache", "fix: handle empty diff"}

\* What the staged files print under git diff --staged.
StagedRepo(files) ==
    [files |-> files,
     stat |-> IF files = <<>> THEN "" ELSE " files changed",
     diff |-> IF files = <<>> THEN "" ELSE "diff --git a b"]

\* git commit exits non-zero when nothing is staged.
GitCommitOutcomes(files) == IF files = <<>> THEN Outcomes \ {"ok"} ELSE Outcomes

\* A faulty variant of AgentCommitMessages: the custom text is replaced by a suggestion.
AgentCommitMessages_IgnoresCustom(kind, text) ==
    IF suggestion # "" THEN {suggestion} ELSE Suggestions \cup {""}

\* The message the agent hands to execute_commit: the custom text, else its
\* last suggestion; with no suggestion to refer to, whatever it makes up.
AgentCommitMessages(kind, text) ==
    IF kind = "custom" THEN {text}
    ELSE IF suggestion # "" THEN {suggestion}
    ELSE Suggestions \cup {""}

\* agent.invoke: one turn of the agent on an instruction of run_write.
AgentInvoke(kind, text) ==
    \E stagedOutcomes \in [1..3 -> Outcomes], newSuggestion \in Suggestions,
       message \in AgentCommitMessages(kind, text),
       commitOutcome \in GitCommitOutcomes(stagedFiles) :
        LET staged == IF kind = "suggest"
                      THEN GetStagedDiffTool(StagedRepo(stagedFiles), stagedOutcomes).value
                      ELSE [has_staged |-> stagedFiles # <<>>]
            composes == AgentComposesOn(kind, staged.has_staged)
            executes == AgentExecutesOn(kind)
            done == CreateCommitTool([isNone |-> FALSE, text |-> message], commitOutcome)
            success == executes /\ done.value.success
        IN  /\ reportedNoStaged' =
                 IF kind = "suggest"
                 THEN ~staged.has_staged /\ "error" \notin DOMAIN staged
                 ELSE reportedNoStaged
            /\ composerCalls' = IF composes THEN composerCalls + 1 ELSE composerCalls
            /\ suggestion' = IF composes THEN newSuggestion ELSE suggestion
            /\ commitArgs' = IF executes THEN Append(commitArgs, message) ELSE commitArgs
            /\ gitCommitRuns' =
                 IF executes THEN gitCommitRuns + Len(done.runs) ELSE gitCommitRuns
            /\ committed' =
                 IF success THEN Append(committed, done.runs[1].message) ELSE committed
            /\ stagedFiles' = IF success THEN <<>> ELSE stagedFiles
            /\ store' = SaveTurn(store, WriteThread, 1)

-----------------------------------------------------------------------------
(* run_write: the approval workflow                                        *)

\* The lines the user may type at each prompt.
MenuInputs ==
    {"", "y", "Y", " yes ", "YES", "accept", "Accept", "r", "revise", "Feedback",
     "c", " Custom", "n", "no", "cancel", "q", "QUIT", "blah", "yy", "y es", "  "}

FeedbackInputs == {"", "shorter subject", "commit it now"}

ConfirmInputs ==
    {"", "y", " Yes", "YES ", "accept", "r", "revise", "c", "n", "no", "blah", " "}

CustomInputs == {"", "   ", "docs: fix typo", "  docs: fix typo ", "Fix Typo", "\tx"}

\* A faulty variant of MenuRoute: "accept" is not among the accepting answers.
MenuRoute_NoAccept(choice) ==
    IF choice \in {"", "y", "yes"} THEN "Accepted"
    ELSE IF choice \in {"n", "no", "cancel", "q", "quit"} THEN "Cancelled"
    ELSE IF choice \in {"r", "revise", "feedback"} THEN "Revising"
    ELSE IF choice \in {"c", "custom"} THEN "CustomInput"
    ELSE "Cancelled"

\* The if/elif chain on user_input.lower() at the options menu.
MenuRoute(choice) ==
    IF choice \in {"", "y", "yes", "accept"} THEN "Accepted"
    ELSE IF choice \in {"n", "no", "cancel", "q", "quit"} THEN "Cancelled"
    ELSE IF choice \in {"r", "revise", "feedback"} THEN "Revising"
    ELSE IF choice \in {"c", "custom"} THEN "CustomInput"
    ELSE "Cancelled"

\* A faulty variant of ConfirmRoute: "r" at the confirmation starts another revision.
ConfirmRoute_Loops(choice) ==
    IF choice \in {"", "y", "yes"} THEN "Accepted"
    ELSE IF choice \in {"r", "revise"} THEN "Revising"
    ELSE "Cancelled"

\* The test on confirm.lower() after a revision.
ConfirmRoute(choice) ==
    IF choice \in {"", "y", "yes"} THEN "Accepted" ELSE "Cancelled"

\* A faulty variant of CustomRoute: an empty message is asked for again.
CustomRoute_AsksAgain(text) == IF text # "" THEN "Accepted" ELSE "CustomInput"

\* The test on custom_msg.
CustomRoute(text) == IF text # "" THEN "Accepted" ELSE "Cancelled"

NoAgentTurn ==
    UNCHANGED <<stagedFiles, suggestion, reportedNoStaged, composerCalls,
                commitArgs, gitCommitRuns, committed, store>>

\* run_write up to the options menu: the agent looks at the staged changes
\* and suggests a message.
RunWriteStart ==
    /\ wfState = "NotStarted"
    /\ AgentInvoke("suggest", "")
    /\ wfState' = "SuggestionPresented"
    /\ UNCHANGED <<route, inputs, call>>

\* The line read at the options menu, and the branch it selects.
MenuChoice ==
    /\ wfState = "SuggestionPresented"
    /\ \E line \in MenuInputs :
        LET user_input == Strip(line)
            to == MenuRoute(Lower(user_input))
        IN  /\ inputs' = Append(inputs, line)
            /\ route' = to
            /\ wfState' = to
            /\ IF to = "Accepted" THEN AgentInvoke("approve", "") ELSE NoAgentTurn
    /\ UNCHANGED call

\* The feedback line, and the revision the agent makes of its suggestion.
Feedback ==
    /\ wfState = "Revising"
    /\ \E line \in FeedbackInputs :
        /\ inputs' = Append(inputs, line)
        /\ AgentInvoke("revise", Strip(line))
    /\ wfState' = "Confirming"
    /\ UNCHANGED <<route, call>>

\* The answer to "Use this revised message? (y/n)".
Confirm ==
    /\ wfState = "Confirming"
    /\ \E line \in ConfirmInputs :
        LET to == ConfirmRoute(Lower(Strip(line)))
        IN  /\ inputs' = Append(inputs, line)
            /\ wfState' = to
            /\ IF to = "Accepted" THEN AgentInvoke("approve_revised", "") ELSE NoAgentTurn
    /\ UNCHANGED <<route, call>>

\* The custom commit message.
CustomMessage ==
    /\ wfState = "CustomInput"
    /\ \E line \in CustomInputs :
        LET custom_msg == Strip(line)
            to == CustomRoute(custom_msg)
        IN  /\ inputs' = Append(inputs, line)
            /\ wfState' = to
            /\ IF to = "Accepted" THEN AgentInvoke("custom", custom_msg) ELSE NoAgentTurn
    /\ UNCHANGED <<route, call>>

NoCall == [op |-> "none"]

\* The staged paths of a repository, as git diff --staged --name-only lists
\* them; a path may begin or end with a space.
StagedFileLists == {<<>>, <<"a.py">>, <<"src/a.py", "b c.txt">>, <<" lead.py", "z.txt ">>}

InitWrite ==
    /\ wfState = "NotStarted"
    /\ route = "none"
    /\ inputs = <<>>
    /\ stagedFiles \in StagedFileLists
    /\ suggestion = ""
    /\ reportedNoStaged = FALSE
    /\ composerCalls = 0
    /\ commitArgs = <<>>
    /\ gitCommitRuns = 0
    /\ committed = <<>>
    /\ call = NoCall
    /\ store = NewStore(TRUE, FALSE)

NextWrite ==
    \/ RunWriteStart
    \/ MenuChoice
    \/ Feedback
    \/ Confirm
    \/ CustomMessage

SpecWrite == InitWrite /\ [][NextWrite]_vars

-----------------------------------------------------------------------------
(* The Git Inspector tools, called one at a time                           *)

\* By how many commits the largest repository exceeds the cap on limit.
RepoOver == 2

\* By how many characters the longest staged diff exceeds the cut.
DiffOver == 3

LimitValues == {0 - MaxLimit, 0 - 1, 0, 1, 2, 3, MaxLimit - 1, MaxLimit, MaxLimit + 1,
                MaxLimit + RepoOver + 1}

Limits == [isInt : {TRUE}, value : LimitValues] \cup {[isInt |-> FALSE, value |-> 0]}

RepoSizes == {0, 1, 2, 3, MaxLimit - 1, MaxLimit, MaxLimit + 1, MaxLimit + RepoOver}

\* git log fails on a repository without commits.
GitLogOutcomes(size) == IF size = 0 THEN Outcomes \ {"ok"} ELSE Outcomes

CommitMessages ==
    {None, Some(""), Some("  "), Some("\t\n"), Some("docs: fix typo"), Some(" feat: y\n"),
     Some("refactor(parser): split the tokenizer into a lexer and a reader stage")}

Urls == {"", "   ", "https://github.com/u/r", " http://example.com/r.git\n", "git://host/r",
         "git@github.com:u/r.git", "ftp://example.com/x", "HTTPS://github.com/u/r",
         "/srv/repo", "xhttps://h/r"}

DiffPattern == "diff --git a/x b/x\n+added line\n"

DiffLengths == {10, DiffLimit - 1, DiffLimit, DiffLimit + 1, DiffLimit + DiffOver}

StagedRepos ==
    {[files |-> <<>>, stat |-> "", diff |-> ""]}
    \cup {[files |-> f, stat |-> " files changed\n",
           diff |-> Prefix(Repeat(DiffPattern, (n \div Len(DiffPattern)) + 1), n)] :
             f \in StagedFileLists \ {<<>>}, n \in DiffLengths}

RepoInfos == [path : {"/work/repo"}, branch : {"main\n", "HEAD\n"},
              remote : {"https://github.com/u/r\n"}, files : StagedFileLists]

\* git diff --staged --quiet exits 0 only when nothing is staged; with
\* nothing staged it exits non-zero only when git itself fails (an index it
\* cannot read, for one).
StagedCheckOutcomes(files) == IF files = <<>> THEN Outcomes ELSE Outcomes \ {"ok"}

CallFetchCommits ==
    /\ call = NoCall
    /\ \E limit \in Limits, size \in RepoSizes :
        \E outcome \in GitLogOutcomes(size) :
            call' = [op |-> "fetch_commits", limit |-> limit, repoSize |-> size,
                     outcome |-> outcome]
                    @@ GetCommitsTool(limit, RepoLog(size), outcome)
    /\ UNCHANGED writeVars

CallCloneRepo ==
    /\ call = NoCall
    /\ \E url \in Urls, mkdtempOk \in BOOLEAN, outcome \in OutcomesWithTimeout :
        call' = [op |-> "clone_repo", url |-> url, mkdtempOk |-> mkdtempOk,
                 outcome |-> outcome]
                @@ CloneRepoTool(url, mkdtempOk, outcome)
    /\ UNCHANGED writeVars

CallGetStagedDiff ==
    /\ call = NoCall
    /\ \E repo \in StagedRepos, outcomes \in [1..3 -> Outcomes] :
        call' = [op |-> "get_staged_diff", repo |-> repo, outcomes |-> outcomes]
                @@ GetStagedDiffTool(repo, outcomes)
    /\ UNCHANGED writeVars

CallCreateCommit ==
    /\ call = NoCall
    /\ \E message \in CommitMessages, outcome \in Outcomes :
        call' = [op |-> "create_commit", message |-> message, outcome |-> outcome]
                @@ CreateCommitTool(message, outcome)
    /\ UNCHANGED writeVars

CallGetRepoInfo ==
    /\ call = NoCall
    /\ \E repo \in RepoInfos, outcomes \in [1..3 -> Outcomes] :
        /\ outcomes[3] \in StagedCheckOutcomes(repo.files)
        /\ call' = [op |-> "get_repo_info", repo |-> repo, outcomes |-> outcomes]
                @@ GetRepoInfoTool(repo, outcomes)
    /\ UNCHANGED writeVars

InitGit ==
    /\ wfState = "NotStarted"
    /\ route = "none"
    /\ inputs = <<>>
    /\ stagedFiles = <<>>
    /\ suggestion = ""
    /\ reportedNoStaged = FALSE
    /\ composerCalls = 0
    /\ commitArgs = <<>>
    /\ gitCommitRuns = 0
    /\ committed = <<>>
    /\ call = NoCall
    /\ store = NewStore(TRUE, FALSE)

NextGit ==
    \/ CallFetchCommits
    \/ CallCloneRepo
    \/ CallGetStagedDiff
    \/ CallCreateCommit
    \/ CallGetRepoInfo

SpecGit == InitGit /\ [][NextGit]_vars

-----------------------------------------------------------------------------
(* The Commit Scorer of ANALYZE_COMMITS_PROMPT and the records of models.py *)

\* score: int = Field(ge=1, le=10)
MinScore == 1

MaxScore == 10

\* category: Literal["needs_work", "acceptable", "excellent"]
Categories == {"needs_work", "acceptable", "excellent"}

\* The validation pydantic runs when a CommitAnalysis is constructed: the
\* constraints of the fields, one field at a time ("none": the record is
\* accepted).  hash and message are given; body, issue, suggestion and
\* why_good are Optional[str] and default to None.
CommitAnalysisRaises(fields) ==
    IF /\ fields.score \in MinScore..MaxScore
       /\ fields.category \in Categories
    THEN "none"
    ELSE "ValidationError"

\* The largest count and the longest per-category list of a report.
MaxCount == 2

\* A record of the category, as the lists of a report hold them.
SampleAnalysis(category) ==
    [hash |-> "3f2a9c41", message |-> "fix",
     score |-> IF category = "needs_work" THEN 1 ELSE IF category = "acceptable" THEN 4 ELSE 9,
     category |-> category,
     issue |-> IF category = "excellent" THEN None ELSE Some("Single word"),
     suggestion |-> IF category = "excellent" THEN None ELSE Some("fix(auth): handle expiry"),
     why_good |-> IF category = "excellent" THEN Some("Clear scope") ELSE None]

\* The validation of an AnalysisReport: the counts are ints, the three lists
\* are lists of CommitAnalysis records.
AnalysisReportRaises(fields) ==
    IF /\ \A name \in {"total_commits", "needs_work_count", "acceptable_count",
                      "excellent_count"} : fields[name] \in Int
       /\ \A name \in Categories :
              \A i \in 1..Len(fields[name]) : CommitAnalysisRaises(fields[name][i]) = "none"
    THEN "none"
    ELSE "ValidationError"

\* The rubric: clarity 0-3, context 0-3, format 0-2, scope 0-2.
MaxClarity == 3

MaxContext == 3

MaxFormat == 2

MaxScope == 2

\* A faulty variant of FinalScore: the plain sum, without the floor.
FinalScore_NoFloor(clarity, context, format, scope) == clarity + context + format + scope

\* "score them 1-10", "10 points total": the points of the four criteria
\* added up; a message without a point ("fix", "wip") is scored 1.
FinalScore(clarity, context, format, scope) ==
    Max(MinScore, clarity + context + format + scope)

\* CATEGORY MAPPING of the prompt.
CategoryOf(score) ==
    IF score <= 3 THEN "needs_work"
    ELSE IF score <= 6 THEN "acceptable"
    ELSE "excellent"

\* The JSON object the scorer returns for one commit (OUTPUT FORMAT and
\* EXAMPLES of the prompt): issue and suggestion, or why_good for excellent.
ScorerOutput(commit, score) ==
    LET category == CategoryOf(score)
    IN  [hash |-> commit.hash, message |-> commit.message, score |-> score,
         category |-> category,
         issue |-> IF category = "excellent" THEN None ELSE Some("Missing scope"),
         suggestion |-> IF category = "excellent" THEN None
                        ELSE Some("fix(auth): resolve token expiration handling"),
         why_good |-> IF category = "excellent" THEN Some("Clear type/scope") ELSE None]

OptionalTexts == {None, Some("text")}

\* CommitAnalysis(hash=..., message=..., score=..., category=..., ...)
CallCommitAnalysis ==
    /\ call = NoCall
    /\ \E score \in (MinScore - 1)..(MaxScore + 1), category \in Categories \cup {"great"},
          issue \in OptionalTexts, better \in OptionalTexts, why_good \in OptionalTexts :
        LET fields == [hash |-> "3f2a9c41", message |-> "fix", score |-> score,
                       category |-> category, issue |-> issue, suggestion |-> better,
                       why_good |-> why_good]
        IN  call' = [op |-> "CommitAnalysis", fields |-> fields,
                     raised |-> CommitAnalysisRaises(fields)]
    /\ UNCHANGED writeVars

\* AnalysisReport(total_commits=..., needs_work_count=..., ..., needs_work=[...], ...)
CallAnalysisReport ==
    /\ call = NoCall
    /\ \E total \in 0..(3 * MaxCount), counts \in [Categories -> 0..MaxCount],
          lengths \in [Categories -> 0..MaxCount] :
        LET fields == [total_commits |-> total,
                       needs_work_count |-> counts["needs_work"],
                       acceptable_count |-> counts["acceptable"],
                       excellent_count |-> counts["excellent"],
                       needs_work |-> [i \in 1..lengths["needs_work"] |->
                                          SampleAnalysis("needs_work")],
                       acceptable |-> [i \in 1..lengths["acceptable"] |->
                                          SampleAnalysis("acceptable")],
                       excellent |-> [i \in 1..lengths["excellent"] |->
                                         SampleAnalysis("excellent")]]
        IN  call' = [op |-> "AnalysisReport", fields |-> fields,
                     raised |-> AnalysisReportRaises(fields)]
    /\ UNCHANGED writeVars

\* The scorer analyzes one fetched commit by the rubric; its output is read
\* as a CommitAnalysis.
CallAnalyzeCommit ==
    /\ call = NoCall
    /\ \E clarity \in 0..MaxClarity, context \in 0..MaxContext, format \in 0..MaxFormat,
          scope \in 0..MaxScope, i \in 1..Len(CommitPool) :
        LET commit == ParseEntry(GitLogPieces(RepoLog(i), i)[i])[1]
            fields == ScorerOutput(commit, FinalScore(clarity, context, format, scope))
        IN  call' = [op |-> "analyze_commit", clarity |-> clarity, context |-> context,
                     format |-> format, scope |-> scope, fields |-> fields,
                     raised |-> CommitAnalysisRaises(fields)]
    /\ UNCHANGED writeVars

\* The validation of a SuggestedCommit: type and subject are str, scope and
\* body Optional[str]; no field has a constraint.
SuggestedCommitRaises(fields) == "none"

\* bool(x) of an Optional[str]: None and "" are false.
Truthy(optional) == ~optional.isNone /\ optional.text # ""

\* A faulty variant of FullMessage: the parentheses are always written.
FullMessage_AlwaysParens(fields) ==
    LET header == fields.type \o "(" \o fields.scope.text \o ")" \o ": " \o fields.subject
    IN  IF Truthy(fields.body) THEN header \o "\n\n" \o fields.body.text ELSE header

\* SuggestedCommit.full_message
FullMessage(fields) ==
    LET typed == fields.type
        scoped == IF Truthy(fields.scope) THEN typed \o "(" \o fields.scope.text \o ")"
                  ELSE typed
        header == scoped \o ": " \o fields.subject
    IN  IF Truthy(fields.body) THEN header \o "\n\n" \o fields.body.text ELSE header

CommitTypes == {"feat", "fix", "wip", "Docs"}

Scopes == {None, Some(""), Some("api")}

Subjects == {"add cache", "add cache.", "x",
             "rework the whole request pipeline and everything around it"}

Bodies == {None, Some(""), Some("Explain why.\nList changes.")}

\* SuggestedCommit(type=..., scope=..., subject=..., body=...).full_message
CallSuggestedCommit ==
    /\ call = NoCall
    /\ \E type \in CommitTypes, scope \in Scopes, subject \in Subjects, body \in Bodies :
        LET fields == [type |-> type, scope |-> scope, subject |-> subject, body |-> body]
        IN  call' = [op |-> "SuggestedCommit", fields |-> fields,
                     raised |-> SuggestedCommitRaises(fields),
                     full_message |-> FullMessage(fields)]
    /\ UNCHANGED writeVars

NextScorer ==
    \/ CallCommitAnalysis
    \/ CallAnalysisReport
    \/ CallAnalyzeCommit
    \/ CallSuggestedCommit

SpecScorer == InitGit /\ [][NextScorer]_vars

-----------------------------------------------------------------------------
(* Calls of the thread functions on a store that conversations fill        *)

\* The most checkpoints the store holds, and the most one turn saves.
MaxRows == 3

MaxTurnRows == 2

GivenThreadIds == {None, Some("")} \cup {Some(id) : id \in ThreadIds}

\* get_or_create_thread_id(thread_id)
CallGetOrCreateThreadId ==
    /\ \E given \in GivenThreadIds, uuid \in MintPool :
        LET result == GetOrCreateThreadId(given, uuid)
            generated == given.isNone \/ given.text = ""
        IN  /\ call' = [op |-> "get_or_create_thread_id", given |-> given,
                        result |-> result, before |-> store]
            /\ store' = [store EXCEPT !.minted = IF generated THEN @ \cup {result} ELSE @]
    /\ UNCHANGED flowVars

\* invoke_agent(agent, message, thread_id): one conversation turn on a thread.
CallInvokeAgent ==
    /\ \E thread_id \in ThreadIds \cup store.minted, rows \in 1..MaxTurnRows :
        /\ Len(store.checkpoints) + Len(store.memorySaver.checkpoints) + rows <= MaxRows
        /\ store' = SaveTurn(store, thread_id, rows)
        /\ call' = [op |-> "invoke_agent", thread_id |-> thread_id, before |-> store]
    /\ UNCHANGED flowVars

\* list_threads()
CallListThreads ==
    /\ call' = [op |-> "list_threads", result |-> ListThreads(store), before |-> store]
    /\ UNCHANGED <<flowVars, store>>

\* clear_thread(thread_id)
CallClearThread ==
    /\ \E thread_id \in ThreadIds \cup MintPool :
        LET done == ClearThread(store, thread_id)
        IN  /\ call' = [op |-> "clear_thread", thread_id |-> thread_id,
                        result |-> done.value, before |-> store]
            /\ store' = done.store
    /\ UNCHANGED flowVars

\* clear_all_threads()
CallClearAllThreads ==
    /\ LET done == ClearAllThreads(store)
       IN  /\ call' = [op |-> "clear_all_threads", result |-> done.value, before |-> store]
           /\ store' = done.store
    /\ UNCHANGED flowVars

InitThreads ==
    /\ wfState = "NotStarted"
    /\ route = "none"
    /\ inputs = <<>>
    /\ stagedFiles = <<>>
    /\ suggestion = ""
    /\ reportedNoStaged = FALSE
    /\ composerCalls = 0
    /\ commitArgs = <<>>
    /\ gitCommitRuns = 0
    /\ committed = <<>>
    /\ call = NoCall
    /\ \E sqlite \in BOOLEAN, dbFile \in BOOLEAN :
        /\ (~sqlite => ~dbFile)
        /\ store = NewStore(sqlite, dbFile)

NextThreads ==
    \/ CallGetOrCreateThreadId
    \/ CallInvokeAgent
    \/ CallListThreads
    \/ CallClearThread
    \/ CallClearAllThreads

SpecThreads == InitThreads /\ [][NextThreads]_vars

-----------------------------------------------------------------------------
(* cli.py: main                                                            *)

\* args.threads or args.clear_threads, in a faulty variant of IsThreadCommand
\* that knows --threads only.
IsThreadCommand_ListOnly(args) == args.threads

\* The two tests "if args.threads" and "if args.clear_threads".
IsThreadCommand(args) == args.threads \/ args.clear_threads

\* A faulty variant of ApiKeySet: the key is never looked at.
ApiKeySet_Always(key) == TRUE

\* os.environ.get("ANTHROPIC_API_KEY") is truthy.
ApiKeySet(key) == ~key.isNone /\ key.text # ""

\* run_analyze or run_write (mode), which creates the agent, runs its first
\* turn on the thread and, in write mode, goes on to read the user's choice;
\* outcome "raises" is an exception out of create_commit_critic_agent, which
\* ends the process with a traceback.
RunMode(mode, args, st, uuid, outcome) ==
    IF outcome = "raises"
    THEN [exit |-> 1, effects |-> <<"create_agent">>, store |-> st]
    ELSE LET thread_id == GetOrCreateThreadId(args.thread, uuid)
             turn == <<"create_agent", "invoke_agent", "git">>
         IN  [exit |-> 0,
              effects |-> IF mode = "run_write" THEN turn \o <<"input">> ELSE turn,
              store |-> SaveTurn(st, thread_id, 1)]

\* main after parse_args: the exit code of the process, what it did in
\* order, and the store it leaves.
Main(args, key, st, uuid, outcome) ==
    IF IsThreadCommand(args)
    THEN IF args.threads
         THEN [exit |-> 0, effects |-> <<"list_threads">>, store |-> st]
         ELSE IF ~args.thread.isNone /\ args.thread.text # ""
         THEN [exit |-> 0, effects |-> <<"clear_thread">>,
               store |-> ClearThread(st, args.thread.text).store]
         ELSE [exit |-> 0, effects |-> <<"clear_all_threads">>,
               store |-> ClearAllThreads(st).store]
    ELSE IF ~ApiKeySet(key)
    THEN [exit |-> 1, effects |-> <<"print_error">>, store |-> st]
    ELSE LET banner == IF args.quiet THEN <<>> ELSE <<"print_banner">>
             ran == IF args.analyze THEN RunMode("run_analyze", args, st, uuid, outcome)
                    ELSE IF args.write THEN RunMode("run_write", args, st, uuid, outcome)
                    ELSE [exit |-> 1, effects |-> <<"print_help">>, store |-> st]
         IN  [ran EXCEPT !.effects = banner \o @]

\* The command lines: the flags, and the value of --thread.
CliArgs ==
    [analyze : BOOLEAN, write : BOOLEAN, threads : BOOLEAN, clear_threads : BOOLEAN,
     quiet : BOOLEAN, thread : {None, Some(""), Some("thread_a")}]

ApiKeys == {None, Some(""), Some("sk-ant-api03-x")}

ModeOutcomes == {"completes", "raises"}

\* The stores a run of the CLI may find.
CliStores ==
    {NewStore(TRUE, FALSE),
     SaveTurn(SaveTurn(NewStore(TRUE, FALSE), "thread_a", 2), "thread_b", 1),
     NewStore(FALSE, FALSE)}

\* One run of the command line.
CallMain ==
    /\ call = NoCall
    /\ \E args \in CliArgs, key \in ApiKeys, uuid \in MintPool, outcome \in ModeOutcomes :
        LET done == Main(args, key, store, uuid, outcome)
        IN  /\ call' = [op |-> "main", args |-> args, key |-> key, outcome |-> outcome,
                        exit |-> done.exit, effects |-> done.effects, before |-> store]
            /\ store' = done.store
    /\ UNCHANGED flowVars

InitCli ==
    /\ wfState = "NotStarted"
    /\ route = "none"
    /\ inputs = <<>>
    /\ stagedFiles = <<>>
    /\ suggestion = ""
    /\ reportedNoStaged = FALSE
    /\ composerCalls = 0
    /\ commitArgs = <<>>
    /\ gitCommitRuns = 0
    /\ committed = <<>>
    /\ call = NoCall
    /\ store \in CliStores

NextCli == CallMain

SpecCli == InitCli /\ [][NextCli]_vars

-----------------------------------------------------------------------------
(* Properties of the approval workflow (SpecWrite)                         *)

C3_MenuRouting ==
    route # "none" =>
        LET line == inputs[1]
            choice == Lower(Strip(line))
            accepts == {"", "y", "yes", "accept"}
            revises == {"r", "revise", "feedback"}
            customs == {"c", "custom"}
        IN  /\ route \in {"Accepted", "Revising", "CustomInput", "Cancelled"}
            /\ choice \in accepts <=> route = "Accepted"
            /\ choice \in revises <=> route = "Revising"
            /\ choice \in customs <=> route = "CustomInput"
            /\ choice \notin (accepts \cup revises \cup customs) <=> route = "Cancelled"
            /\ line \in {"", "  ", "Y", " yes ", "YES", "Accept"} => route = "Accepted"
            /\ line \in {"Feedback", "r"} => route = "Revising"
            /\ line = " Custom" => route = "CustomInput"
            /\ line \in {"n", "no", "cancel", "q", "QUIT", "blah", "yy", "y es"}
                 => route = "Cancelled"

C3_Witness ==
    /\ route = "Cancelled"
    /\ inputs = <<"blah">>
    /\ wfState = "Cancelled"

C5_SingleRevisionRound ==
    [][/\ wfState = "Revising" =>
            /\ wfState' = "Confirming"
            /\ Len(inputs') = Len(inputs) + 1
            /\ composerCalls' = composerCalls + 1
            /\ commitArgs' = commitArgs
       /\ wfState = "Confirming" =>
            LET answer == Lower(Strip(inputs'[Len(inputs')]))
            IN  /\ composerCalls' = composerCalls
                /\ answer \in {"", "y", "yes"} => wfState' = "Accepted"
                /\ answer \notin {"", "y", "yes"} => wfState' = "Cancelled"
                /\ inputs'[Len(inputs')] \in {"r", "revise", "accept", "n", "blah"}
                     => wfState' = "Cancelled"
                /\ inputs'[Len(inputs')] \in {" Yes", "YES "} => wfState' = "Accepted"
       /\ wfState' = "Revising" => wfState = "SuggestionPresented"
      ]_vars

C5_Witness ==
    /\ wfState = "Cancelled"
    /\ route = "Revising"
    /\ Len(inputs) = 3
    /\ inputs[3] = "revise"
    /\ composerCalls = 2

\* C6: once the flow has reported that there are no staged changes, whatever
\* the user types, the Composer is never called and create_commit is never
\* called.
C6_NoStagedNoComposerNoCommit ==
    reportedNoStaged => composerCalls = 0 /\ commitArgs = <<>>

\* C30: a run of the approval workflow reads at most three inputs and ends
\* in exactly one of Accepted and Cancelled: every position before the end
\* has a next step, each step after the suggestion reads one input and moves
\* forward (SuggestionPresented is never entered again), and nothing follows
\* Accepted or Cancelled.
C30_EndsAcceptedOrCancelled ==
    LET ended == wfState \in {"Accepted", "Cancelled"}
        read == Len(inputs)
    IN  /\ read <= 3
        /\ wfState = "NotStarted" => read = 0 /\ route = "none"
        /\ wfState = "SuggestionPresented" => read = 0 /\ route = "none"
        /\ wfState \in {"Revising", "CustomInput"} => read = 1 /\ route = wfState
        /\ wfState = "Confirming" => read = 2 /\ route = "Revising"
        /\ ended =>
             /\ route \in {"Accepted", "Cancelled"} => read = 1 /\ wfState = route
             /\ route = "CustomInput" => read = 2
             /\ route = "Revising" => read = 3
             /\ route # "none"
        /\ ended <=> ~ENABLED NextWrite

C30_Witness ==
    /\ wfState = "Accepted"
    /\ route = "Revising"
    /\ Len(inputs) = 3
    /\ Len(committed) = 1
    /\ ~ENABLED NextWrite

-----------------------------------------------------------------------------
(* Properties of the Git Inspector tools (SpecGit)                         *)

\* The commands of the last call that did not exit successfully.
FailedRuns ==
    IF call.op \in {"fetch_commits", "clone_repo", "create_commit"}
    THEN {i \in 1..Len(call.runs) : call.outcome # "ok"}
    ELSE IF call.op \in {"get_staged_diff", "get_repo_info"}
    THEN {i \in 1..Len(call.runs) : call.outcomes[i] # "ok"}
    ELSE {}

\* C7: create_commit returns success=false without running git for a null,
\* empty or whitespace-only message; for every other message it runs git
\* commit exactly once, with the trimmed message, and returns success=true
\* exactly when that run exits successfully.
C7_CreateCommitAtomic ==
    call.op = "create_commit" =>
        LET blank == call.message \in {None, Some(""), Some("  "), Some("\t\n")}
        IN  /\ call.raised = "none"
            /\ blank => call.value.success = FALSE /\ call.runs = <<>>
            /\ ~blank =>
                 /\ Len(call.runs) = 1
                 /\ call.runs[1].cmd = "commit"
                 /\ call.runs[1].message # ""
                 /\ call.value.success <=> call.outcome = "ok"
            /\ call.value.success <=> "error" \notin DOMAIN call.value

C7_Witness ==
    /\ call.op = "create_commit"
    /\ call.message = Some("  ")
    /\ call.outcome = "ok"
    /\ call.value.success = FALSE
    /\ call.runs = <<>>

\* C8 as stated: every call of the five operations returns a structured
\* result and raises nothing, whatever the outcome of its subprocesses, and
\* whenever one of its subprocesses fails the result carries an error.
C8_FailureAlwaysAnError ==
    call.op # "none" =>
        /\ call.raised = "none"
        /\ call.kind \in {"list", "object"}
        /\ FailedRuns # {} => call.kind = "object" /\ "error" \in DOMAIN call.value

\* C8 amended: every call of the five operations returns a structured result
\* and raises nothing, whatever the outcome of its subprocesses; whenever one
\* of its subprocesses fails the result carries an error, except that
\* get_repo_info turns a non-zero exit of its remote lookup into the sentinel
\* remote and a non-zero exit of its staged check into has_staged_changes.
C8_FailureAnErrorButRepoInfo ==
    call.op # "none" =>
        LET tolerated ==
                IF call.op = "get_repo_info"
                THEN {i \in {2, 3} : call.outcomes[i] = "nonzero"}
                ELSE {}
        IN  /\ call.raised = "none"
            /\ call.kind \in {"list", "object"}
            /\ FailedRuns \ tolerated # {} =>
                 call.kind = "object" /\ "error" \in DOMAIN call.value
            /\ (call.op = "get_repo_info" /\ FailedRuns # {} /\ FailedRuns \subseteq tolerated) =>
                 /\ "error" \notin DOMAIN call.value
                 /\ 2 \in FailedRuns => call.value.remote = "No remote configured"
                 /\ call.value.has_staged_changes <=> 3 \in FailedRuns

C8_Witness ==
    /\ call.op = "get_staged_diff"
    /\ call.outcomes = <<"ok", "launch", "ok">>
    /\ Len(call.runs) = 2
    /\ call.raised = "none"
    /\ "error" \in DOMAIN call.value

\* C9: for every integer limit fetch_commits asks git log for
\* max(1, min(limit, 500)) commits and returns at most that many: never more
\* than 500 however long the history, and one for a limit of 0 or below.
C9_LimitClamped ==
    (call.op = "fetch_commits" /\ call.limit.isInt) =>
        LET asked == IF call.limit.value < 1 THEN 1
                     ELSE IF call.limit.value > 500 THEN 500
                     ELSE call.limit.value
        IN  /\ Len(call.runs) = 1
            /\ call.runs[1].n = asked
            /\ call.kind = "list" =>
                 /\ Len(call.value) <= asked
                 /\ Len(call.value) <= 500
                 /\ Len(call.value) = Min(asked, call.repoSize)

C9_Witness ==
    /\ call.op = "fetch_commits"
    /\ call.limit.isInt
    /\ call.limit.value > MaxLimit
    /\ call.repoSize > MaxLimit
    /\ call.kind = "list"
    /\ Len(call.value) = MaxLimit

\* C10: when git log fails, or the limit is no number, fetch_commits returns
\* an error payload with an empty commit list and raises nothing; a
\* successful call returns the list of commits and no error.
C10_FetchFailureIsData ==
    call.op = "fetch_commits" =>
        LET failed == call.outcome # "ok" \/ ~call.limit.isInt
        IN  /\ call.raised = "none"
            /\ failed =>
                 /\ call.kind = "object"
                 /\ DOMAIN call.value = {"error", "commits"}
                 /\ call.value.commits = <<>>
            /\ ~failed =>
                 /\ call.kind = "list"
                 /\ Len(call.value) >= 1
                 /\ \A i \in 1..Len(call.value) :
                        DOMAIN call.value[i] = {"hash", "message", "body"}

C10_Witness ==
    /\ call.op = "fetch_commits"
    /\ ~call.limit.isInt
    /\ call.outcome = "ok"
    /\ call.kind = "object"
    /\ call.value.commits = <<>>
    /\ call.runs = <<>>

\* C11: a URL whose trimmed form is empty or starts with none of https://,
\* http://, git://, git@ gets a validation failure (success=false, repo_path
\* null, an error) as a returned result; no subprocess is run and no
\* temporary directory is created.
C11_InvalidUrlRejectedLocally ==
    call.op = "clone_repo" =>
        LET url == Strip(call.url)
            allowed == \E scheme \in {"https://", "http://", "git://", "git@"} :
                           StartsWith(url, scheme)
            rejected == /\ call.raised = "none"
                        /\ call.kind = "object"
                        /\ call.value.success = FALSE
                        /\ call.value.repo_path = None
                        /\ "error" \in DOMAIN call.value
                        /\ call.runs = <<>>
                        /\ call.tempDirs = 0
        IN  /\ (url = "" \/ ~allowed) => rejected
            /\ call.url \in {"", "   ", "ftp://example.com/x", "HTTPS://github.com/u/r",
                             "/srv/repo", "xhttps://h/r"} => rejected

C11_Witness ==
    /\ call.op = "clone_repo"
    /\ call.url = "ftp://example.com/x"
    /\ call.mkdtempOk
    /\ call.outcome = "ok"
    /\ call.value.success = FALSE
    /\ call.runs = <<>>
    /\ call.tempDirs = 0

\* C12: a clone that outlives the 60-second timeout, a clone that exits
\* non-zero and a URL that fails validation are reported with three different
\* error reasons, each with success=false and a null repo_path.
C12_TimeoutReasonDistinct ==
    (call.op = "clone_repo" /\ call.raised = "none" /\ ~call.value.success) =>
        LET error == call.value.error
            timedOut == StartsWith(error, "Clone timed out after 60 seconds")
            generic == StartsWith(error, "Clone failed: ")
            validation == error = "Empty URL provided"
                              \/ StartsWith(error, "Invalid URL protocol")
            cloned == call.runs # <<>>
            url == Strip(call.url)
            invalid == url = "" \/ ~\E scheme \in {"https://", "http://", "git://", "git@"} :
                                        StartsWith(url, scheme)
        IN  /\ call.value.repo_path = None
            /\ (cloned /\ call.outcome = "timeout") <=> timedOut
            /\ (cloned /\ call.outcome = "nonzero") <=> generic
            /\ invalid <=> validation
            /\ invalid => ~cloned
            /\ ~(timedOut /\ generic) /\ ~(timedOut /\ validation) /\ ~(generic /\ validation)
            /\ cloned => call.runs[1].timeout = 60

C12_Witness ==
    /\ call.op = "clone_repo"
    /\ call.url = "https://github.com/u/r"
    /\ call.outcome = "timeout"
    /\ Len(call.runs) = 1
    /\ call.value.success = FALSE
    /\ call.value.repo_path = None

\* C13: with zero staged files get_staged_diff returns has_staged=false with
\* the guidance message (an error when git itself failed) and none of diff,
\* stat, files, file_count; has_staged=true is returned only when at least one
\* file is staged.
C13_NothingStagedNothingPopulated ==
    call.op = "get_staged_diff" =>
        /\ call.raised = "none"
        /\ call.repo.files = <<>> =>
             /\ call.value.has_staged = FALSE
             /\ DOMAIN call.value \cap {"diff", "stat", "files", "file_count"} = {}
             /\ (\A i \in 1..3 : call.outcomes[i] = "ok") =>
                  /\ DOMAIN call.value = {"has_staged", "message"}
                  /\ StartsWith(call.value.message, "No staged changes found")
             /\ "message" \in DOMAIN call.value \/ "error" \in DOMAIN call.value
        /\ call.value.has_staged => Len(call.repo.files) >= 1

C13_Witness ==
    /\ call.op = "get_staged_diff"
    /\ call.repo.files = <<>>
    /\ call.outcomes = <<"ok", "ok", "ok">>
    /\ call.value.has_staged = FALSE
    /\ "message" \in DOMAIN call.value

\* C14: every result with has_staged=true has as diff the first
\* min(5000, length) characters of the full staged diff, as files the staged
\* paths in git's order with no empty entry, and as file_count the length of
\* files, which is at least 1.
C14_StagedChangesWellFormed ==
    (call.op = "get_staged_diff" /\ call.raised = "none" /\ call.value.has_staged) =>
        LET full == call.repo.diff
            cut == IF Len(full) < 5000 THEN Len(full) ELSE 5000
        IN  /\ call.value.diff = SubSeq(full, 1, cut)
            /\ Len(call.value.diff) <= 5000
            /\ call.value.files = call.repo.files
            /\ \A i \in 1..Len(call.value.files) : call.value.files[i] # ""
            /\ call.value.file_count = Len(call.value.files)
            /\ call.value.file_count >= 1

\* C15: where the path is no git repository (rev-parse exits non-zero) the
\* result is an error payload without branch, remote or has_staged_changes;
\* in a repository without an origin remote (remote get-url exits non-zero)
\* the result is a normal one whose remote is the sentinel.
C15_NotARepoIsErrorNoRemoteIsSentinel ==
    call.op = "get_repo_info" =>
        /\ call.raised = "none"
        /\ call.outcomes[1] = "nonzero" =>
             /\ DOMAIN call.value = {"error"}
             /\ Len(call.runs) = 1
        /\ (call.outcomes[1] = "ok" /\ call.outcomes[2] = "nonzero"
              /\ call.outcomes[3] # "launch") =>
             /\ DOMAIN call.value = {"repo_path", "branch", "remote", "has_staged_changes"}
             /\ call.value.remote = "No remote configured"
             /\ call.value.branch \in {"main", "HEAD"}

C15_Witness ==
    /\ call.op = "get_repo_info"
    /\ call.outcomes = <<"ok", "nonzero", "ok">>
    /\ call.value.remote = "No remote configured"
    /\ "error" \notin DOMAIN call.value
    /\ call.value.has_staged_changes = FALSE

\* C16: in every successful get_repo_info result has_staged_changes is true
\* exactly when the repository has staged changes, and equals the has_staged
\* flag get_staged_diff returns for the same state of the repository (where
\* git cannot answer the staged check, it cannot answer the staged diff).
C16_StagedFlagIsRepoState ==
    (call.op = "get_repo_info" /\ call.raised = "none" /\ "error" \notin DOMAIN call.value) =>
        LET files == call.repo.files
            gitFails == files = <<>> /\ call.outcomes[3] = "nonzero"
            exits == IF gitFails THEN "nonzero" ELSE "ok"
            sameState == GetStagedDiffTool(StagedRepo(files), <<exits, exits, exits>>)
        IN  /\ call.value.has_staged_changes <=> call.outcomes[3] # "ok"
            /\ call.value.has_staged_changes <=> files # <<>>
            /\ call.value.has_staged_changes = sameState.value.has_staged

\* C29 as stated: no operation retries: a call runs each git command at
\* most once, runs nothing after a command that failed, and surfaces every
\* failure of a command exactly once, as the error of its structured result.
C29_NoRetryEveryFailureSurfaced ==
    call.op # "none" =>
        /\ \A i, j \in 1..Len(call.runs) : i # j => call.runs[i].cmd # call.runs[j].cmd
        /\ FailedRuns # {} =>
             /\ FailedRuns = {Len(call.runs)}
             /\ call.raised = "none"
             /\ call.kind = "object"
             /\ "error" \in DOMAIN call.value

\* C29 amended: the same, except for the two failures get_repo_info does not
\* report: after a non-zero exit of its remote lookup or of its staged check
\* it goes on, and the result carries no error for them.
C29_NoRetryReportedFailureIsLast ==
    call.op # "none" =>
        LET tolerated ==
                IF call.op = "get_repo_info"
                THEN {i \in {2, 3} : call.outcomes[i] = "nonzero"}
                ELSE {}
            reported == FailedRuns \ tolerated
        IN  /\ \A i, j \in 1..Len(call.runs) : i # j => call.runs[i].cmd # call.runs[j].cmd
            /\ reported # {} =>
                 /\ reported = {Len(call.runs)}
                 /\ call.raised = "none"
                 /\ call.kind = "object"
                 /\ "error" \in DOMAIN call.value
            /\ (reported = {} /\ call.op \in {"get_staged_diff", "get_repo_info"}) =>
                 /\ Len(call.runs) = 3
                 /\ "error" \notin DOMAIN call.value

C29_Witness ==
    /\ call.op = "get_repo_info"
    /\ call.outcomes = <<"ok", "nonzero", "launch">>
    /\ Len(call.runs) = 3
    /\ "error" \in DOMAIN call.value

-----------------------------------------------------------------------------
(* Properties of the scorer and of the records (SpecScorer)                *)

\* C17: in every CommitAnalysis record that is accepted the category is the
\* one of the score: needs_work for 1..3, acceptable for 4..6, excellent for
\* 7..10, each score of 1..10 having exactly one category.
C17_CategoryAgreesWithScore ==
    (call.op \in {"CommitAnalysis", "analyze_commit"} /\ call.raised = "none") =>
        LET score == call.fields.score
            category == call.fields.category
        IN  /\ score \in 1..10
            /\ category = "needs_work" <=> score \in 1..3
            /\ category = "acceptable" <=> score \in 4..6
            /\ category = "excellent" <=> score \in 7..10

\* C18: in every CommitAnalysis record that is accepted, excellent comes
\* with why_good set and issue and suggestion unset; needs_work and
\* acceptable come with issue and suggestion set and why_good unset.
C18_ExplanationsByCategory ==
    (call.op \in {"CommitAnalysis", "analyze_commit"} /\ call.raised = "none") =>
        LET fields == call.fields
        IN  /\ fields.category = "excellent" =>
                 /\ ~fields.why_good.isNone
                 /\ fields.issue.isNone
                 /\ fields.suggestion.isNone
            /\ fields.category \in {"needs_work", "acceptable"} =>
                 /\ ~fields.issue.isNone
                 /\ ~fields.suggestion.isNone
                 /\ fields.why_good.isNone

\* C19: in every AnalysisReport of a non-empty set of records the three
\* category counts add up to total_commits, and each count is the length of
\* the list of its category.
C19_CountsSumToTotal ==
    (call.op = "AnalysisReport" /\ call.raised = "none") =>
        LET fields == call.fields
            records == Len(fields.needs_work) + Len(fields.acceptable) + Len(fields.excellent)
        IN  records > 0 =>
                /\ fields.needs_work_count + fields.acceptable_count
                       + fields.excellent_count = fields.total_commits
                /\ fields.needs_work_count = Len(fields.needs_work)
                /\ fields.acceptable_count = Len(fields.acceptable)
                /\ fields.excellent_count = Len(fields.excellent)

C21_FullMessageFormat ==
    call.op = "SuggestedCommit" =>
        LET fields == call.fields
            noScope == fields.scope \in {None, Some("")}
            noBody == fields.body \in {None, Some("")}
            header == IF noScope THEN fields.type \o ": " \o fields.subject
                      ELSE fields.type \o "(" \o fields.scope.text \o "): " \o fields.subject
        IN  /\ noBody => call.full_message = header
            /\ ~noBody => call.full_message = header \o "\n" \o "\n" \o fields.body.text
            /\ (fields.type = "feat" /\ fields.scope = Some("api")
                  /\ fields.subject = "add cache" /\ fields.body = None)
                 => call.full_message = "feat(api): add cache"
            /\ (fields.type = "fix" /\ fields.scope = Some("")
                  /\ fields.subject = "x" /\ fields.body = Some(""))
                 => call.full_message = "fix: x"

C21_Witness ==
    /\ call.op = "SuggestedCommit"
    /\ call.fields.scope = Some("")
    /\ call.fields.body = Some("Explain why.\nList changes.")
    /\ call.fields.type = "feat"
    /\ call.fields.subject = "add cache"
    /\ call.full_message = "feat: add cache\n\nExplain why.\nList changes."

\* C22: every SuggestedCommit record that is accepted has one of the eight
\* types and a subject of at most 50 characters that does not end in a period.
C22_SuggestedCommitConstrained ==
    (call.op = "SuggestedCommit" /\ call.raised = "none") =>
        LET subject == call.fields.subject
        IN  /\ call.fields.type \in {"feat", "fix", "refactor", "docs", "test", "chore",
                                     "style", "perf"}
            /\ Len(subject) <= 50
            /\ ~(Len(subject) > 0 /\ SubSeq(subject, Len(subject), Len(subject)) = ".")

-----------------------------------------------------------------------------
(* Properties of the thread functions (SpecThreads)                        *)

\* C23: get_or_create returns every given identifier unchanged, the empty
\* string included, and only without an identifier mints one, which differs
\* from every identifier minted or listed before.
C23_GivenIdKeptFreshIdMinted ==
    call.op = "get_or_create_thread_id" =>
        IF ~call.given.isNone
        THEN /\ call.result = call.given.text
             /\ store.minted = call.before.minted
        ELSE /\ call.result \notin call.before.minted
             /\ \A i \in 1..Len(ListThreads(call.before)) :
                    ListThreads(call.before)[i] # call.result

\* C24: with the durable store, clear(id) removes exactly the checkpoints of
\* thread id: list() no longer has id, every other thread keeps its
\* checkpoints, and the result is true exactly when id had checkpoints; an
\* unknown id gives false and leaves the store as it was.
C24_ClearRemovesExactlyThatThread ==
    (call.op = "clear_thread" /\ call.before.sqlite) =>
        LET Turns(st, thread) ==
                Cardinality({i \in 1..Len(st.checkpoints) : st.checkpoints[i] = thread})
            listed == ListThreads(store)
            had == Turns(call.before, call.thread_id) > 0
        IN  /\ \A i \in 1..Len(listed) : listed[i] # call.thread_id
            /\ Turns(store, call.thread_id) = 0
            /\ \A other \in (ThreadIds \cup MintPool) \ {call.thread_id} :
                   /\ Turns(store, other) = Turns(call.before, other)
                   /\ (\E i \in 1..Len(ListThreads(call.before)) :
                           ListThreads(call.before)[i] = other)
                        <=> (\E i \in 1..Len(listed) : listed[i] = other)
            /\ call.result = had
            /\ ~had => store = call.before
            /\ [store EXCEPT !.checkpoints = <<>>]
                 = [call.before EXCEPT !.checkpoints = <<>>]

C24_Witness ==
    /\ call.op = "clear_thread"
    /\ call.before.sqlite
    /\ call.result = TRUE
    /\ call.thread_id = "thread_a"
    /\ call.before.checkpoints = <<"thread_a", "thread_b", "thread_a">>
    /\ store.checkpoints = <<"thread_b">>
    /\ ListThreads(store) = <<"thread_b">>

\* C25: clear_all() leaves list() empty and returns the number of threads
\* list() reported just before the call.
C25_ClearAllCountsThreads ==
    (call.op = "clear_all_threads" /\ call.before.sqlite) =>
        /\ ListThreads(store) = <<>>
        /\ call.result = Len(ListThreads(call.before))

\* C26: without the durable backend, list(), clear(id) and clear_all() leave
\* the in-process store as it was and report no thread listed or removed.
C26_MemoryModeNoOps ==
    (call.op \in {"list_threads", "clear_thread", "clear_all_threads"}
       /\ ~call.before.sqlite) =>
        /\ store = call.before
        /\ call.op = "list_threads" => call.result = <<>>
        /\ call.op = "clear_thread" => call.result = FALSE
        /\ call.op = "clear_all_threads" => call.result = 0

-----------------------------------------------------------------------------
(* Properties of main (SpecCli)                                            *)

\* C27: the exit code is 0 on the --threads and --clear-threads paths, with
\* or without an API key, and when --analyze or --write completes; it is 1
\* when the API key is missing for anything else, and when neither --analyze
\* nor --write nor a thread flag is given.
C27_ExitCodes ==
    call.op = "main" =>
        LET args == call.args
            keyMissing == call.key \in {None, Some("")}
        IN  /\ (args.threads \/ args.clear_threads) => call.exit = 0
            /\ (~args.threads /\ ~args.clear_threads /\ keyMissing) => call.exit = 1
            /\ (~args.threads /\ ~args.clear_threads /\ ~keyMissing
                  /\ ~args.analyze /\ ~args.write) => call.exit = 1
            /\ (~args.threads /\ ~args.clear_threads /\ ~keyMissing
                  /\ (args.analyze \/ args.write) /\ call.outcome = "completes")
                 => call.exit = 0

C27_Witness ==
    /\ call.op = "main"
    /\ call.args.clear_threads
    /\ ~call.args.threads
    /\ call.args.write
    /\ call.key = None
    /\ call.exit = 0

\* C28 as stated: with --analyze or --write and no API key, main prints the
\* error and exits non-zero having done nothing else: no agent, no git
\* command, no input read, no thread created or changed.
C28_NoKeyNoWork ==
    (call.op = "main" /\ (call.args.analyze \/ call.args.write)
       /\ call.key \in {None, Some("")}) =>
        /\ call.exit # 0
        /\ call.effects = <<"print_error">>
        /\ store = call.before

\* C28, amended: the same, when neither --threads nor --clear-threads is given.
C28_NoKeyNoWorkUnlessThreadCommand ==
    (call.op = "main" /\ (call.args.analyze \/ call.args.write)
       /\ ~call.args.threads /\ ~call.args.clear_threads
       /\ call.key \in {None, Some("")}) =>
        /\ call.exit # 0
        /\ call.effects = <<"print_error">>
        /\ store = call.before

C28_Witness ==
    /\ call.op = "main"
    /\ call.args.analyze
    /\ ~call.args.threads /\ ~call.args.clear_threads
    /\ call.key = Some("")
    /\ call.before.checkpoints = <<"thread_a", "thread_a", "thread_b">>
    /\ call.exit = 1
    /\ call.effects = <<"print_error">>
    /\ store = call.before

====
